---- MODULE Spec2Model ----
(***************************************************************************)
(* Appointment scheduler: the phrase normalization of                      *)
(* services/normalizationService.js, the clarification gate of             *)
(* services/aiService.js, and the request handlers and in-memory store of  *)
(* controllers/appointmentController.js.                                   *)
(*                                                                         *)
(* A JavaScript string is a sequence of one-character strings, null is     *)
(* NULL. A Date is a record [valid, day, ms]: day counts days since        *)
(* 1970-01-01 and ms the milliseconds into that day; "Invalid Date" is     *)
(* InvalidDate.  Confidence scores are in hundredths (0.6 is 60).          *)
(***************************************************************************)
EXTENDS Integers, Sequences, FiniteSets, TLC

VARIABLES
    appointments,   \* the controller's in-memory list, newest first
    clock,          \* the system clock, what new Date() / Date.now() read
    env,            \* process.env.DEFAULT_TIMEZONE
    handlers,       \* request id -> the handler's position and locals
    ticks,          \* how often the clock has advanced (bounds the model)
    call            \* the last direct call of a pipeline function

vars == <<appointments, clock, env, handlers, ticks, call>>

\* Bind(v, F) is F(v), that is LET x == v IN F(x), with v worked out once.
Bind(v, F(_)) == CHOOSE r \in {F(x) : x \in {v}} : TRUE

\* ------------------------------------------------------------ strings

NULL == <<"null">>

\* JavaScript's !s for s a string or null.
Falsy(s) == s = NULL \/ s = <<>>

Digits == <<"0","1","2","3","4","5","6","7","8","9">>
UpperLetters == <<"A","B","C","D","E","F","G","H","I","J","K","L","M",
                  "N","O","P","Q","R","S","T","U","V","W","X","Y","Z">>
LowerLetters == <<"a","b","c","d","e","f","g","h","i","j","k","l","m",
                  "n","o","p","q","r","s","t","u","v","w","x","y","z">>

IsDigit(c) == \E i \in 1..10 : Digits[i] = c
DigitVal(c) == (CHOOSE i \in 1..10 : Digits[i] = c) - 1

RECURSIVE parseInt(_)
parseInt(s) ==
    IF s = <<>> THEN 0
    ELSE 10 * parseInt(SubSeq(s, 1, Len(s) - 1)) + DigitVal(s[Len(s)])

LowerChar(c) ==
    IF \E i \in 1..26 : UpperLetters[i] = c
    THEN LowerLetters[CHOOSE i \in 1..26 : UpperLetters[i] = c]
    ELSE c

toLowerCase(s) == [i \in 1..Len(s) |-> LowerChar(s[i])]

IsSpace(c) == c = " "

RECURSIVE trimStart(_)
trimStart(s) ==
    IF s # <<>> /\ IsSpace(s[1]) THEN trimStart(Tail(s)) ELSE s

RECURSIVE trimEnd(_)
trimEnd(s) ==
    IF s # <<>> /\ IsSpace(s[Len(s)]) THEN trimEnd(SubSeq(s, 1, Len(s) - 1)) ELSE s

trim(s) == trimEnd(trimStart(s))

includes(s, sub) ==
    \E i \in 0..(Len(s) - Len(sub)) : SubSeq(s, i + 1, i + Len(sub)) = sub

padStart2(n) == <<Digits[((n \div 10) % 10) + 1], Digits[(n % 10) + 1]>>

padStart4(n) == padStart2(n \div 100) \o padStart2(n % 100)

\* ------------------------------------------------------- time phrases

NullInfo == [ok |-> FALSE]
NoMatch == [matched |-> FALSE]

DigitAt(p, i) == i >= 1 /\ i <= Len(p) /\ IsDigit(p[i])
CharAt(p, i, c) == i >= 1 /\ i <= Len(p) /\ p[i] = c

\* /(\d{1,2}):(\d{2})/ tried at position i with n hour digits.
Time24At(p, i, n) ==
    /\ \A k \in 0..(n - 1) : DigitAt(p, i + k)
    /\ CharAt(p, i + n, ":")
    /\ DigitAt(p, i + n + 1)
    /\ DigitAt(p, i + n + 2)

\* phrase.match(/(\d{1,2}):(\d{2})/): the leftmost match, two hour digits
\* before one.
time24Match(p) ==
    Bind({i \in 1..Len(p) : Time24At(p, i, 2) \/ Time24At(p, i, 1)}, LAMBDA starts :
        IF starts = {} THEN NoMatch
        ELSE Bind(CHOOSE j \in starts : \A k \in starts : j <= k, LAMBDA i :
             Bind(IF Time24At(p, i, 2) THEN 2 ELSE 1, LAMBDA n :
                 [matched |-> TRUE,
                  g1 |-> SubSeq(p, i, i + n - 1),
                  g2 |-> SubSeq(p, i + n + 1, i + n + 2)])))

RECURSIVE SkipSpaces(_, _)
SkipSpaces(p, i) ==
    IF i <= Len(p) /\ IsSpace(p[i]) THEN SkipSpaces(p, i + 1) ELSE i

MeridiemAt(p, i) ==
    IF CharAt(p, i, "a") /\ CharAt(p, i + 1, "m") THEN <<"a","m">>
    ELSE IF CharAt(p, i, "p") /\ CharAt(p, i + 1, "m") THEN <<"p","m">>
    ELSE NULL

\* /(\d{1,2})(?::(\d{2}))?\s*(am|pm)/ tried at position i with n hour digits,
\* with or without the minutes group.
Time12At(p, i, n, withMinutes) ==
    /\ \A k \in 0..(n - 1) : DigitAt(p, i + k)
    /\ withMinutes =>
          CharAt(p, i + n, ":") /\ DigitAt(p, i + n + 1) /\ DigitAt(p, i + n + 2)
    /\ MeridiemAt(p, SkipSpaces(p, i + n + (IF withMinutes THEN 3 ELSE 0))) # NULL

\* The regular expression's alternatives in the order the engine tries them.
Time12Tries == << <<2, TRUE>>, <<2, FALSE>>, <<1, TRUE>>, <<1, FALSE>> >>

\* The first of Time12Tries that matches at position i, 0 if none does.
Time12Try(p, i) ==
    IF \E u \in 1..4 : Time12At(p, i, Time12Tries[u][1], Time12Tries[u][2])
    THEN CHOOSE u \in 1..4 :
            /\ Time12At(p, i, Time12Tries[u][1], Time12Tries[u][2])
            /\ \A v \in 1..(u - 1) :
                  ~Time12At(p, i, Time12Tries[v][1], Time12Tries[v][2])
    ELSE 0

\* phrase.match(/(\d{1,2})(?::(\d{2}))?\s*(am|pm)/): the leftmost match.
time12Match(p) ==
    Bind({i \in 1..Len(p) : Time12Try(p, i) # 0}, LAMBDA starts :
        IF starts = {} THEN NoMatch
        ELSE Bind(CHOOSE j \in starts : \A k \in starts : j <= k, LAMBDA i :
             Bind(Time12Tries[Time12Try(p, i)], LAMBDA try :
                 [matched |-> TRUE,
                  g1 |-> SubSeq(p, i, i + try[1] - 1),
                  g2 |-> IF try[2] THEN SubSeq(p, i + try[1] + 1, i + try[1] + 2)
                         ELSE NULL,
                  g3 |-> MeridiemAt(p, SkipSpaces(p, i + try[1]
                                                      + (IF try[2] THEN 3 ELSE 0)))])))

\* hours and minutes without the two adjustments of lines 58-59: the hour is
\* the number as written.  C11 does not hold of it.
TimeFieldsAsWritten(phrase) ==
    Bind(time24Match(phrase), LAMBDA time24Match_ :
        IF time24Match_.matched
        THEN [hours |-> parseInt(time24Match_.g1), minutes |-> parseInt(time24Match_.g2)]
        ELSE Bind(time12Match(phrase), LAMBDA time12Match_ :
            IF time12Match_.matched
            THEN [hours |-> parseInt(time12Match_.g1),
                  minutes |-> IF time12Match_.g2 # NULL
                              THEN parseInt(time12Match_.g2) ELSE 0]
            ELSE [hours |-> 0, minutes |-> 0]))

\* hours and minutes with the 12-hour pattern tried before the 24-hour one.
\* C28 does not hold of it.
TimeFieldsTwelveFirst(phrase) ==
    Bind(time12Match(phrase), LAMBDA time12Match_ :
        IF time12Match_.matched
        THEN Bind(parseInt(time12Match_.g1), LAMBDA h :
                 [hours |-> IF time12Match_.g3 = <<"p","m">> /\ h # 12 THEN h + 12
                            ELSE IF time12Match_.g3 = <<"a","m">> /\ h = 12 THEN 0
                            ELSE h,
                  minutes |-> IF time12Match_.g2 # NULL
                              THEN parseInt(time12Match_.g2) ELSE 0])
        ELSE Bind(time24Match(phrase), LAMBDA time24Match_ :
            IF time24Match_.matched
            THEN [hours |-> parseInt(time24Match_.g1),
                  minutes |-> parseInt(time24Match_.g2)]
            ELSE [hours |-> 0, minutes |-> 0]))

\* hours and minutes after the two matches (normalizeTimePhrase, lines 47-61).
TimeFields(phrase) ==
    Bind(time24Match(phrase), LAMBDA time24Match_ :
        IF time24Match_.matched
        THEN [hours |-> parseInt(time24Match_.g1), minutes |-> parseInt(time24Match_.g2)]
        ELSE Bind(time12Match(phrase), LAMBDA time12Match_ :
            IF time12Match_.matched
            THEN Bind(parseInt(time12Match_.g1), LAMBDA h :
                     [hours |-> IF time12Match_.g3 = <<"p","m">> /\ h # 12 THEN h + 12
                                ELSE IF time12Match_.g3 = <<"a","m">> /\ h = 12 THEN 0
                                ELSE h,
                      minutes |-> IF time12Match_.g2 # NULL
                                  THEN parseInt(time12Match_.g2) ELSE 0])
            ELSE [hours |-> 0, minutes |-> 0]))

\* normalizeTimePhrase without the range check of line 63.  C12 does not
\* hold of it.
normalizeTimePhraseUnchecked(timePhrase) ==
    IF Falsy(timePhrase) THEN NullInfo
    ELSE Bind(TimeFields(trim(toLowerCase(timePhrase))), LAMBDA f :
             [ok |-> TRUE,
              time |-> padStart2(f.hours) \o <<":">> \o padStart2(f.minutes),
              hours |-> f.hours,
              minutes |-> f.minutes])

normalizeTimePhrase(timePhrase) ==
    IF Falsy(timePhrase) THEN NullInfo
    ELSE Bind(TimeFields(trim(toLowerCase(timePhrase))), LAMBDA f :
             IF f.hours >= 0 /\ f.hours < 24 /\ f.minutes >= 0 /\ f.minutes < 60
             THEN [ok |-> TRUE,
                   time |-> padStart2(f.hours) \o <<":">> \o padStart2(f.minutes),
                   hours |-> f.hours,
                   minutes |-> f.minutes]
             ELSE NullInfo)

\* -------------------------------------------------------------- dates

MsPerMinute == 60000
MsPerHour == 3600000
MsPerDay == 86400000

InvalidDate == [valid |-> FALSE]

\* A variable that holds a Date or null, holding null.
NullDate == [valid |-> FALSE, isNull |-> TRUE]

IsLeapYear(y) == (y % 4 = 0 /\ y % 100 # 0) \/ y % 400 = 0

DaysInMonth(y, m) ==
    IF m = 2 THEN (IF IsLeapYear(y) THEN 29 ELSE 28)
    ELSE IF m \in {4, 6, 9, 11} THEN 30 ELSE 31

\* Days since 1970-01-01 of the proleptic Gregorian date y-m-d.
DaysFromCivil(y, m, d) ==
    LET yy == IF m <= 2 THEN y - 1 ELSE y
        era == yy \div 400
        yoe == yy - era * 400
        doy == ((153 * (IF m > 2 THEN m - 3 ELSE m + 9) + 2) \div 5) + d - 1
        doe == yoe * 365 + (yoe \div 4) - (yoe \div 100) + doy
    IN  era * 146097 + doe - 719468

\* The calendar fields of a day number (Date's getFullYear, getMonth + 1, getDate).
CivilFromDays(z) ==
    LET zz == z + 719468
        era == zz \div 146097
        doe == zz - era * 146097
        yoe == (doe - (doe \div 1460) + (doe \div 36524) - (doe \div 146096)) \div 365
        doy == doe - (365 * yoe + (yoe \div 4) - (yoe \div 100))
        mp == (5 * doy + 2) \div 153
        d == doy - ((153 * mp + 2) \div 5) + 1
        m == IF mp < 10 THEN mp + 3 ELSE mp - 9
    IN  [year |-> yoe + era * 400 + (IF m <= 2 THEN 1 ELSE 0), month |-> m, day |-> d]

\* Date.prototype.getDay: 0 is Sunday; 1970-01-01 was a Thursday.
getDay(date) == (date.day + 4) % 7

ShiftMs(date, delta) ==
    LET t == date.ms + delta
    IN  [valid |-> TRUE, day |-> date.day + (t \div MsPerDay), ms |-> t % MsPerDay]

\* The IANA zones of the model and their offsets from UTC in minutes (none
\* of them has daylight saving time).  Any other identifier is unknown to
\* date-fns-tz, which then yields an Invalid Date.
KnownTimezones == {"Asia/Kolkata", "UTC", "Pacific/Honolulu"}

tzOffsetMinutes(timezone) ==
    CASE timezone = "Asia/Kolkata" -> 330
      [] timezone = "UTC" -> 0
      [] timezone = "Pacific/Honolulu" -> -600

\* utcToZonedTime without the zone's offset: the fields of the date in UTC.
\* C9 does not hold of it.
utcToZonedTimeInUtc(date, timezone) ==
    IF ~date.valid \/ timezone \notin KnownTimezones THEN InvalidDate
    ELSE ShiftMs(date, 0)

\* The wall clock of `timezone` at the instant `date`, as a Date's local fields.
utcToZonedTime(date, timezone) ==
    IF ~date.valid \/ timezone \notin KnownTimezones THEN InvalidDate
    ELSE ShiftMs(date, tzOffsetMinutes(timezone) * MsPerMinute)

\* zonedTimeToUtc that takes the local fields of `date` for UTC fields.  C22
\* does not hold of it.
zonedTimeToUtcAsWritten(date, timezone) ==
    IF ~date.valid \/ timezone \notin KnownTimezones THEN InvalidDate
    ELSE ShiftMs(date, 0)

\* The instant at which `timezone`'s wall clock shows the local fields of `date`.
zonedTimeToUtc(date, timezone) ==
    IF ~date.valid \/ timezone \notin KnownTimezones THEN InvalidDate
    ELSE ShiftMs(date, -(tzOffsetMinutes(timezone) * MsPerMinute))

startOfDay(date) == IF date.valid THEN [date EXCEPT !.ms = 0] ELSE InvalidDate

addDays(date, n) == IF date.valid THEN [date EXCEPT !.day = date.day + n] ELSE InvalidDate

setHours(date, h) ==
    IF date.valid THEN [date EXCEPT !.ms = h * MsPerHour + (date.ms % MsPerHour)]
    ELSE InvalidDate

setMinutes(date, m) ==
    IF date.valid
    THEN [date EXCEPT !.ms = (date.ms \div MsPerHour) * MsPerHour + m * MsPerMinute
                              + (date.ms % MsPerMinute)]
    ELSE InvalidDate

\* format(date, 'yyyy-MM-dd') of a valid date.
format(date) ==
    LET c == CivilFromDays(date.day)
    IN  padStart4(c.year) \o <<"-">> \o padStart2(c.month) \o <<"-">> \o padStart2(c.day)

padStart3(n) == <<Digits[((n \div 100) % 10) + 1]>> \o padStart2(n % 100)

\* Date.prototype.toISOString of a valid date.
toISOString(date) ==
    format(date) \o <<"T">> \o padStart2(date.ms \div MsPerHour) \o <<":">>
        \o padStart2((date.ms % MsPerHour) \div MsPerMinute) \o <<":">>
        \o padStart2((date.ms % MsPerMinute) \div 1000) \o <<".">>
        \o padStart3(date.ms % 1000) \o <<"Z">>

MonthAbbreviations ==
    << <<"j","a","n">>, <<"f","e","b">>, <<"m","a","r">>, <<"a","p","r">>,
       <<"m","a","y">>, <<"j","u","n">>, <<"j","u","l">>, <<"a","u","g">>,
       <<"s","e","p">>, <<"o","c","t">>, <<"n","o","v">>, <<"d","e","c">> >>

\* The formats with the month-first slash format ahead of the day-first one.
\* C15 does not hold of it.
formatsMonthFirst ==
    << <<"yyyy", "-", "MM", "-", "dd">>,
       <<"MM", "/", "dd", "/", "yyyy">>,
       <<"dd", "/", "MM", "/", "yyyy">>,
       <<"MMM", " ", "dd", ",", " ", "yyyy">> >>

\* The formats of line 27, each as date-fns splits it into tokens.
formats ==
    << <<"yyyy", "-", "MM", "-", "dd">>,
       <<"dd", "/", "MM", "/", "yyyy">>,
       <<"MM", "/", "dd", "/", "yyyy">>,
       <<"MMM", " ", "dd", ",", " ", "yyyy">> >>

ParseFail == [ok |-> FALSE]

\* The length of the run of digits a numeric token takes: at most n.
DigitRun(s, n) ==
    CHOOSE k \in 0..n : (\A j \in 1..k : DigitAt(s, j)) /\ (k = n \/ ~DigitAt(s, k + 1))

\* date-fns parse: the tokens take their text from the front of the string
\* one after the other; a literal must be next in the string.
\* One token of a format taken from the front of str: the fields so far
\* with the token's value and the text left, or ParseFail.
ParseToken(str, tok, acc) ==
    IF tok \in {"yyyy", "MM", "dd"}
    THEN Bind(DigitRun(str, IF tok = "yyyy" THEN 4 ELSE 2), LAMBDA k :
         Bind(parseInt(SubSeq(str, 1, k)), LAMBDA v :
             IF k = 0 THEN ParseFail
             ELSE IF tok = "yyyy"
             THEN [acc EXCEPT !.year = v, !.rest = SubSeq(str, k + 1, Len(str))]
             ELSE IF tok = "MM"
             THEN [acc EXCEPT !.month = v, !.rest = SubSeq(str, k + 1, Len(str))]
             ELSE [acc EXCEPT !.day = v, !.rest = SubSeq(str, k + 1, Len(str))]))
    ELSE IF tok = "MMM"
    THEN Bind(toLowerCase(SubSeq(str, 1, 3)), LAMBDA head :
             IF Len(str) >= 3 /\ \E i \in 1..12 : MonthAbbreviations[i] = head
             THEN [acc EXCEPT !.month = CHOOSE i \in 1..12 : MonthAbbreviations[i] = head,
                              !.rest = SubSeq(str, 4, Len(str))]
             ELSE ParseFail)
    ELSE IF CharAt(str, 1, tok) THEN [acc EXCEPT !.rest = Tail(str)]
    ELSE ParseFail

\* date-fns parse: the tokens take their text from the front of the string
\* one after the other; a literal must be next in the string.
RECURSIVE ParseTokens(_, _)
ParseTokens(tokens, acc) ==
    IF tokens = <<>> \/ ~acc.ok THEN acc
    ELSE Bind(ParseToken(acc.rest, Head(tokens), acc), LAMBDA next :
             ParseTokens(Tail(tokens), next))

\* parse that lets a day past the end of its month roll over into the next
\* month.  C14 does not hold of it.
parseRollingOver(dateString, f, referenceDate) ==
    IF ~referenceDate.valid THEN InvalidDate
    ELSE Bind(ParseTokens(f, [ok |-> TRUE, year |-> 0, month |-> 0, day |-> 0,
                              rest |-> dateString]), LAMBDA r :
             IF ~r.ok THEN InvalidDate
             ELSE IF \E i \in 1..Len(r.rest) : ~IsSpace(r.rest[i]) THEN InvalidDate
             ELSE IF r.year <= 0 THEN InvalidDate
             ELSE IF r.month < 1 \/ r.month > 12 THEN InvalidDate
             ELSE IF r.day < 1 \/ r.day > 31 THEN InvalidDate
             ELSE [valid |-> TRUE, day |-> DaysFromCivil(r.year, r.month, r.day), ms |-> 0])

\* parse(dateString, f, referenceDate) of date-fns for a format of `formats`:
\* Invalid Date unless the whole string is taken (trailing white space
\* aside) and names a day of the calendar.
parse(dateString, f, referenceDate) ==
    IF ~referenceDate.valid THEN InvalidDate
    ELSE Bind(ParseTokens(f, [ok |-> TRUE, year |-> 0, month |-> 0, day |-> 0,
                              rest |-> dateString]), LAMBDA r :
             IF ~r.ok THEN InvalidDate
             ELSE IF \E i \in 1..Len(r.rest) : ~IsSpace(r.rest[i]) THEN InvalidDate
             ELSE IF r.year <= 0 THEN InvalidDate
             ELSE IF r.month < 1 \/ r.month > 12 THEN InvalidDate
             ELSE IF r.day < 1 \/ r.day > DaysInMonth(r.year, r.month) THEN InvalidDate
             ELSE [valid |-> TRUE, day |-> DaysFromCivil(r.year, r.month, r.day), ms |-> 0])

days ==
    << <<"s","u","n","d","a","y">>, <<"m","o","n","d","a","y">>,
       <<"t","u","e","s","d","a","y">>, <<"w","e","d","n","e","s","d","a","y">>,
       <<"t","h","u","r","s","d","a","y">>, <<"f","r","i","d","a","y">>,
       <<"s","a","t","u","r","d","a","y">> >>

Today == <<"t","o","d","a","y">>
Tomorrow == <<"t","o","m","o","r","r","o","w">>
DayAfterTomorrow == <<"d","a","y"," ">> \o <<"a","f","t","e","r"," ">> \o Tomorrow
NextWord == <<"n","e","x","t">>

UNDEFINED == "undefined"

\* const DEFAULT_TIMEZONE = process.env.DEFAULT_TIMEZONE || 'Asia/Kolkata'
DEFAULT_TIMEZONE == IF env = UNDEFINED \/ env = "" THEN "Asia/Kolkata" ELSE env

\* A parameter declared `timezone = DEFAULT_TIMEZONE`.
TimezoneArg(timezone) == IF timezone = UNDEFINED THEN DEFAULT_TIMEZONE ELSE timezone

\* new Date()
NewDate == [valid |-> TRUE, day |-> clock.day, ms |-> clock.ms]

\* The first format of `formats`, from index i on, that parses to a valid date.
RECURSIVE FirstFormat(_, _, _)
FirstFormat(datePhrase, now, i) ==
    IF i > Len(formats) THEN NullDate
    ELSE Bind(parse(datePhrase, formats[i], now), LAMBDA parsed :
             IF parsed.valid THEN parsed ELSE FirstFormat(datePhrase, now, i + 1))

\* daysToAdd with `<` for the `<=` of line 23: today when today is the
\* weekday asked for.  C10 does not hold of it.
DaysToAddFromToday(targetDayIndex, currentDayIndex) ==
    IF targetDayIndex - currentDayIndex < 0
    THEN targetDayIndex - currentDayIndex + 7
    ELSE targetDayIndex - currentDayIndex

\* daysToAdd of normalizeDatePhrase (lines 22-23).
DaysToAdd(targetDayIndex, currentDayIndex) ==
    IF targetDayIndex - currentDayIndex <= 0
    THEN targetDayIndex - currentDayIndex + 7
    ELSE targetDayIndex - currentDayIndex

\* targetDate of normalizeDatePhrase (lines 9-34): a Date, or NullDate.
TargetDate(datePhrase, timezone) ==
    Bind(utcToZonedTime(NewDate, timezone), LAMBDA now :
    Bind(trim(toLowerCase(datePhrase)), LAMBDA phrase :
        IF includes(phrase, Today) THEN startOfDay(now)
        ELSE IF includes(phrase, Tomorrow) THEN addDays(startOfDay(now), 1)
        ELSE IF includes(phrase, DayAfterTomorrow) THEN addDays(startOfDay(now), 2)
        ELSE IF includes(phrase, NextWord)
        THEN IF \E i \in 1..7 : includes(phrase, days[i])
             THEN Bind((CHOOSE i \in 1..7 :
                           /\ includes(phrase, days[i])
                           /\ \A j \in 1..(i - 1) : ~includes(phrase, days[j])) - 1,
                       LAMBDA targetDayIndex :
                  IF ~now.valid THEN InvalidDate
                  ELSE addDays(startOfDay(now), DaysToAdd(targetDayIndex, getDay(now))))
             ELSE NullDate
        ELSE FirstFormat(datePhrase, now, 1)))

\* normalizeDatePhrase that answers with today when no date was found, for
\* the `return null` of line 37.  C13 does not hold of it.
normalizeDatePhraseOrToday(datePhrase, timezone) ==
    IF Falsy(datePhrase) THEN NullInfo
    ELSE Bind(TargetDate(datePhrase, TimezoneArg(timezone)), LAMBDA targetDate :
             IF targetDate = NullDate
             THEN Bind(startOfDay(utcToZonedTime(NewDate, TimezoneArg(timezone))),
                       LAMBDA today :
                      IF today.valid
                      THEN [ok |-> TRUE, date |-> format(today), datetime |-> today]
                      ELSE NullInfo)
             ELSE IF ~targetDate.valid THEN NullInfo
             ELSE [ok |-> TRUE, date |-> format(targetDate), datetime |-> targetDate])

normalizeDatePhrase(datePhrase, timezone) ==
    IF Falsy(datePhrase) THEN NullInfo
    ELSE Bind(TargetDate(datePhrase, TimezoneArg(timezone)), LAMBDA targetDate :
             IF targetDate = NullDate THEN NullInfo
             ELSE IF ~targetDate.valid THEN NullInfo   \* format throws RangeError
             ELSE [ok |-> TRUE, date |-> format(targetDate), datetime |-> targetDate])

\* ----------------------------------------------------------- pipeline

\* datetime composed whenever the date parsed, at midnight when the time did
\* not.  C7 does not hold of it.
ComposeDatetimeOfDate(dateInfo, timeInfo, tz) ==
    IF dateInfo.ok
    THEN Bind(zonedTimeToUtc(dateInfo.datetime, tz), LAMBDA utc :
             IF utc.valid THEN toISOString(utc) ELSE NULL)
    ELSE NULL

\* datetime of normalizeEntities (lines 76-84).
ComposeDatetime(dateInfo, timeInfo, tz) ==
    IF dateInfo.ok /\ timeInfo.ok
    THEN Bind(zonedTimeToUtc(setMinutes(setHours(dateInfo.datetime, timeInfo.hours),
                                        timeInfo.minutes), tz), LAMBDA utc :
             IF utc.valid THEN toISOString(utc)
             ELSE NULL)   \* toISOString throws, caught on line 83
    ELSE NULL

\* normalizeEntities with the time left out of what it returns.  C8 does
\* not hold of it.
normalizeEntitiesWithoutTime(entities, timezone) ==
    Bind(TimezoneArg(timezone), LAMBDA tz :
    Bind(normalizeDatePhrase(entities.date_phrase, tz), LAMBDA dateInfo :
    Bind(normalizeTimePhrase(entities.time_phrase), LAMBDA timeInfo :
        [date |-> IF dateInfo.ok THEN dateInfo.date ELSE NULL,
         time |-> NULL,
         datetime |-> ComposeDatetime(dateInfo, timeInfo, tz),
         department |-> entities.department,
         timezone |-> tz])))

\* normalizeEntities that takes the department out of the entities it is
\* given: a later call on the same entities finds none.  C21 does not hold
\* of it.
normalizeEntitiesConsuming(entities, timezone) ==
    Bind(TimezoneArg(timezone), LAMBDA tz :
    Bind(normalizeDatePhrase(entities.date_phrase, tz), LAMBDA dateInfo :
    Bind(normalizeTimePhrase(entities.time_phrase), LAMBDA timeInfo :
        [date |-> IF dateInfo.ok THEN dateInfo.date ELSE NULL,
         time |-> IF timeInfo.ok THEN timeInfo.time ELSE NULL,
         datetime |-> ComposeDatetime(dateInfo, timeInfo, tz),
         department |-> IF call.fn = "none" THEN entities.department ELSE NULL,
         timezone |-> tz])))

normalizeEntities(entities, timezone) ==
    Bind(TimezoneArg(timezone), LAMBDA tz :
    Bind(normalizeDatePhrase(entities.date_phrase, tz), LAMBDA dateInfo :
    Bind(normalizeTimePhrase(entities.time_phrase), LAMBDA timeInfo :
        [date |-> IF dateInfo.ok THEN dateInfo.date ELSE NULL,
         time |-> IF timeInfo.ok THEN timeInfo.time ELSE NULL,
         datetime |-> ComposeDatetime(dateInfo, timeInfo, tz),
         department |-> entities.department,
         timezone |-> tz])))

\* --------------------------------------------------- clarification gate

ConfidenceThreshold == 60

\* The gate with `<=` for the `<` of line 161: a confidence of 0.6 is turned
\* away.  C5 does not hold of it.
needsClarificationAtThreshold(entities) ==
    IF entities.confidence <= ConfidenceThreshold THEN TRUE
    ELSE IF Falsy(entities.date_phrase) \/ Falsy(entities.time_phrase)
            \/ Falsy(entities.department) THEN TRUE
    ELSE ~entities.is_clear

\* The gate without the department among the fields it requires.  C29 does
\* not hold of it.
needsClarificationWithoutDepartment(entities) ==
    \/ entities.confidence < ConfidenceThreshold
    \/ Falsy(entities.date_phrase)
    \/ Falsy(entities.time_phrase)
    \/ entities.is_clear = FALSE

needsClarification(entities) ==
    IF entities.confidence < ConfidenceThreshold THEN TRUE
    ELSE IF Falsy(entities.date_phrase) \/ Falsy(entities.time_phrase)
            \/ Falsy(entities.department) THEN TRUE
    ELSE ~entities.is_clear

DatePrompt == "Date (e.g., \"tomorrow\", \"Jan 25\")"
TimePrompt == "Time (e.g., \"3pm\", \"10:00\")"
DepartmentPrompt == "Department (e.g., \"Cardiology\", \"Dentist\")"
GenericPrompt == "Please provide the appointment date, time, and department."
AmbiguousMessage == "Ambiguous date/time or department"

\* Array.prototype.join: the parts with the separator between them.  A
\* message is the sequence of the pieces it is concatenated from.
RECURSIVE join(_, _)
join(parts, sep) ==
    IF Len(parts) <= 1 THEN parts
    ELSE <<Head(parts), sep>> \o join(Tail(parts), sep)

\* generateClarificationMessage that asks for the time before the date.
\* C16 does not hold of it.
generateClarificationMessageTimeFirst(entities) ==
    LET missing == (IF Falsy(entities.time_phrase) THEN <<TimePrompt>> ELSE <<>>)
                   \o (IF Falsy(entities.date_phrase) THEN <<DatePrompt>> ELSE <<>>)
                   \o (IF Falsy(entities.department) THEN <<DepartmentPrompt>> ELSE <<>>)
    IN  IF Len(missing) > 0 THEN <<"Please provide: ">> \o join(missing, ", ")
        ELSE <<GenericPrompt>>

\* generateClarificationMessage without the fallback of line 179: an empty
\* list when no field is missing.  C17 does not hold of it.
generateClarificationMessageWithoutFallback(entities) ==
    LET missing == (IF Falsy(entities.date_phrase) THEN <<DatePrompt>> ELSE <<>>)
                   \o (IF Falsy(entities.time_phrase) THEN <<TimePrompt>> ELSE <<>>)
                   \o (IF Falsy(entities.department) THEN <<DepartmentPrompt>> ELSE <<>>)
    IN  <<"Please provide: ">> \o join(missing, ", ")

generateClarificationMessage(entities) ==
    LET missing == (IF Falsy(entities.date_phrase) THEN <<DatePrompt>> ELSE <<>>)
                   \o (IF Falsy(entities.time_phrase) THEN <<TimePrompt>> ELSE <<>>)
                   \o (IF Falsy(entities.department) THEN <<DepartmentPrompt>> ELSE <<>>)
    IN  IF Len(missing) > 0 THEN <<"Please provide: ">> \o join(missing, ", ")
        ELSE <<GenericPrompt>>

\* ------------------------------------------------------------- inputs

\* Date phrases an extraction can hold: null, the empty string, relative
\* phrases, absolute dates in and outside the four formats, and phrases
\* that name no date.
DatePhraseInputs ==
    { NULL,
      <<>>,
      <<"t","o","d","a","y">>,
      <<"t","o","m","o","r","r","o","w">>,
      <<"d","a","y"," ","a","f","t","e","r"," ","t","o","m","o","r","r","o","w">>,
      <<"T","o","m","o","r","r","o","w"," ","m","o","r","n","i","n","g">>,
      <<"n","e","x","t"," ","s","u","n","d","a","y">>,
      <<"n","e","x","t"," ","m","o","n","d","a","y">>,
      <<"n","e","x","t"," ","t","u","e","s","d","a","y">>,
      <<"n","e","x","t"," ","w","e","d","n","e","s","d","a","y">>,
      <<"n","e","x","t"," ","t","h","u","r","s","d","a","y">>,
      <<"n","e","x","t"," ","f","r","i","d","a","y">>,
      <<"n","e","x","t"," ","s","a","t","u","r","d","a","y">>,
      <<"N","e","x","t"," ","F","r","i","d","a","y">>,
      <<"n","e","x","t"," ","w","e","e","k">>,
      <<"s","o","m","e","t","i","m","e">>,
      <<"2","0","2","6","-","0","1","-","2","5">>,
      <<"2","5","/","0","1","/","2","0","2","6">>,
      <<"0","1","/","2","5","/","2","0","2","6">>,
      <<"0","3","/","0","4","/","2","0","2","6">>,
      <<"2","9","/","0","2","/","2","0","2","5">>,
      <<"2","9","/","0","2","/","2","0","2","4">>,
      <<"2","0","2","6","-","0","2","-","3","0">>,
      <<"3","1","/","0","4","/","2","0","2","6">>,
      <<"0","2","/","3","0","/","2","0","2","6">>,
      <<"J","a","n"," ","2","5",","," ","2","0","2","6">>,
      <<" ","2","0","2","6","-","0","1","-","2","5">> }

\* Time phrases an extraction can hold: 12-hour and 24-hour times in and
\* out of range, and phrases without digits ("noon", "afternoon").
TimePhraseInputs ==
    { NULL,
      <<>>,
      <<"3","p","m">>,
      <<"1","2","a","m">>,
      <<"1","2","p","m">>,
      <<"1","0",":","0","0">>,
      <<"9",":","0","5">>,
      <<"2","5",":","0","0">>,
      <<"1","0",":","7","5">>,
      <<"1","3","p","m">>,
      <<"2",":","3","0","p","m">>,
      <<"1","2",":","1","5","a","m">>,
      <<"3"," ","P","M">>,
      <<"1","1","p","m">>,
      <<"9","a","m">>,
      <<"a","t"," ","1","0","a","m">>,
      <<"n","o","o","n">>,
      <<"a","f","t","e","r","n","o","o","n">> }

Dentist == <<"D","e","n","t","i","s","t">>

\* Departments an extraction can hold.
DepartmentInputs == {NULL, <<>>, Dentist}

\* Confidence scores an extraction can hold, in hundredths.
ConfidenceInputs == {0, 59, 60, 92}

\* The timezone argument of a call: left out, a known zone, an unknown one.
TimezoneInputs == {UNDEFINED, "Asia/Kolkata", "Pacific/Honolulu", "Mars/Phobos"}

\* Values of process.env.DEFAULT_TIMEZONE.
EnvInputs == {UNDEFINED, "UTC"}

\* The entities whose phrases are among `dates` and `times`.
Entities(dates, times) ==
    [date_phrase : dates, time_phrase : times, department : DepartmentInputs,
     confidence : ConfidenceInputs, is_clear : BOOLEAN]

\* Reference instants: each day of the week of Sunday 2026-01-18, the ends
\* of a month and of a year, and the end of February in a leap year and in
\* a common year; early, mid-morning and late in the UTC day, so that the
\* local date of a zone is the UTC date, the day before or the day after.
ReferenceDays ==
    {DaysFromCivil(2026, 1, 18) + k : k \in 0..6}
        \cup {DaysFromCivil(2026, 1, 31), DaysFromCivil(2026, 12, 31),
              DaysFromCivil(2027, 1, 1),
              DaysFromCivil(2024, 2, 28), DaysFromCivil(2024, 2, 29),
              DaysFromCivil(2025, 2, 28)}

ReferenceTimes ==
    {0, 9 * MsPerHour + 30 * MsPerMinute, 20 * MsPerHour + 15 * MsPerMinute + 42123}

ReferenceInstants == [day : ReferenceDays, ms : ReferenceTimes]

\* ------------------------------------------ direct calls of the pipeline

NoCall == [fn |-> "none"]

Idle == [pc |-> "idle"]

MaxRequests == 2

ReqIds == 1..MaxRequests

InitDate ==
    /\ appointments = <<>>
    /\ clock \in ReferenceInstants
    /\ env \in EnvInputs
    /\ handlers = [r \in ReqIds |-> Idle]
    /\ ticks = 0
    /\ call = NoCall

CallNormalizeDatePhrase ==
    /\ call = NoCall
    /\ \E p \in DatePhraseInputs, tz \in TimezoneInputs :
          call' = [fn |-> "normalizeDatePhrase", datePhrase |-> p, timezone |-> tz,
                   result |-> normalizeDatePhrase(p, tz)]
    /\ UNCHANGED <<appointments, clock, env, handlers, ticks>>

\* The call returns; the next one can be made.
Return ==
    /\ call # NoCall
    /\ call' = NoCall
    /\ UNCHANGED <<appointments, clock, env, handlers, ticks>>

NextDate == CallNormalizeDatePhrase \/ Return

SpecDate == InitDate /\ [][NextDate]_vars

CoreDatePhrases ==
    {NULL, <<>>, Today, Tomorrow, DayAfterTomorrow,
     <<"n","e","x","t"," ","f","r","i","d","a","y">>,
     <<"s","o","m","e","t","i","m","e">>,
     <<"2","0","2","6","-","0","1","-","2","5">>,
     <<"2","9","/","0","2","/","2","0","2","5">>}

CoreTimePhrases ==
    {NULL, <<>>, <<"3","p","m">>, <<"1","0",":","0","0">>, <<"2","5",":","0","0">>,
     <<"2",":","3","0","p","m">>, <<"n","o","o","n">>}

CoreInstants ==
    {[day |-> DaysFromCivil(2026, 1, 19), ms |-> 18 * MsPerHour + 30 * MsPerMinute],
     [day |-> DaysFromCivil(2026, 12, 31), ms |-> 20 * MsPerHour]}

InitCore ==
    /\ appointments = <<>>
    /\ clock \in CoreInstants
    /\ env \in EnvInputs
    /\ handlers = [r \in ReqIds |-> Idle]
    /\ ticks = 0
    /\ call = NoCall

CallNormalizeTimePhrase ==
    /\ call = NoCall
    /\ \E p \in TimePhraseInputs :
          call' = [fn |-> "normalizeTimePhrase", timePhrase |-> p,
                   result |-> normalizeTimePhrase(p)]
    /\ UNCHANGED <<appointments, clock, env, handlers, ticks>>

CallNormalizeEntities ==
    /\ call = NoCall
    /\ \E e \in Entities(CoreDatePhrases, CoreTimePhrases), tz \in TimezoneInputs :
          call' = [fn |-> "normalizeEntities", entities |-> e, timezone |-> tz,
                   result |-> normalizeEntities(e, tz)]
    /\ UNCHANGED <<appointments, clock, env, handlers, ticks>>

CallNeedsClarification ==
    /\ call = NoCall
    /\ \E e \in Entities(CoreDatePhrases, CoreTimePhrases) :
          call' = [fn |-> "needsClarification", entities |-> e,
                   result |-> needsClarification(e)]
    /\ UNCHANGED <<appointments, clock, env, handlers, ticks>>

CallGenerateClarificationMessage ==
    /\ call = NoCall
    /\ \E e \in Entities(CoreDatePhrases, CoreTimePhrases) :
          call' = [fn |-> "generateClarificationMessage", entities |-> e,
                   result |-> generateClarificationMessage(e)]
    /\ UNCHANGED <<appointments, clock, env, handlers, ticks>>

NextCore ==
    \/ CallNormalizeTimePhrase
    \/ CallNormalizeEntities
    \/ CallNeedsClarification
    \/ CallGenerateClarificationMessage
    \/ Return

SpecCore == InitCore /\ [][NextCore]_vars

\* ---------------------------------------------------- entity extractor

\* What the model call of extractEntities can come to: it throws, its
\* response holds no JSON object, or the JSON object `json` is parsed.
GeminiThrows == [kind |-> "throws"]
GeminiNoJson == [kind |-> "noJson"]
GeminiJson(json) == [kind |-> "json", json |-> json]

\* extractEntities whose failure falls to the default confidence of line 62
\* instead of 0.  C23 does not hold of it.
extractEntitiesDefaulting(outcome) ==
    IF outcome.kind = "json"
    THEN [date_phrase |-> outcome.json.date_phrase,
          time_phrase |-> outcome.json.time_phrase,
          department |-> outcome.json.department,
          confidence |-> IF outcome.json.confidenceIsNumber
                         THEN outcome.json.confidence ELSE 50,
          is_clear |-> outcome.json.is_clear # "false"]
    ELSE [date_phrase |-> NULL, time_phrase |-> NULL, department |-> NULL,
          confidence |-> 50, is_clear |-> FALSE,
          error |-> IF outcome.kind = "noJson" THEN "No JSON found in response"
                    ELSE "model call failed"]

\* extractEntities, given what the model call came to (lines 53-83).
extractEntities(outcome) ==
    IF outcome.kind = "json"
    THEN [date_phrase |-> outcome.json.date_phrase,
          time_phrase |-> outcome.json.time_phrase,
          department |-> outcome.json.department,
          confidence |-> IF outcome.json.confidenceIsNumber
                         THEN outcome.json.confidence ELSE 50,
          is_clear |-> outcome.json.is_clear # "false"]
    ELSE [date_phrase |-> NULL, time_phrase |-> NULL, department |-> NULL,
          confidence |-> 0, is_clear |-> FALSE,
          error |-> IF outcome.kind = "noJson" THEN "No JSON found in response"
                    ELSE "model call failed"]

\* ------------------------------------------------------------- OCR

OcrThrows == [kind |-> "throws"]
OcrText(text) == [kind |-> "text", text |-> text]

IsAlphanumeric(c) ==
    \/ IsDigit(c)
    \/ \E i \in 1..26 : UpperLetters[i] = c \/ LowerLetters[i] = c

\* validateExtractedText with the check of line 114 alone: any non-empty
\* text passes.  C30 does not hold of it.
validateExtractedTextNonEmpty(text) == ~Falsy(text)

validateExtractedText(text) ==
    IF Falsy(text) THEN FALSE
    ELSE LET trimmed == trim(text)
         IN  IF Len(trimmed) < 3 THEN FALSE
             ELSE \E i \in 1..Len(trimmed) : IsAlphanumeric(trimmed[i])

\* The confidence extractTextFromImageMistral estimates (line 89), in hundredths.
OcrConfidence(extractedText) == IF Len(extractedText) > 10 THEN 90 ELSE 70

\* ----------------------------------------------------------- the store

\* saveAppointment that keeps the new record alone.  C6 does not hold
\* of it.
saveAppointmentAlone(apptData) ==
    <<[_id |-> [prefix |-> "appt_", day |-> clock.day, ms |-> clock.ms],
       createdAt |-> NewDate] @@ apptData>>

\* saveAppointment that marks the records already stored as superseded.
\* C18 does not hold of it.
saveAppointmentSuperseding(apptData) ==
    <<[_id |-> [prefix |-> "appt_", day |-> clock.day, ms |-> clock.ms],
       createdAt |-> NewDate] @@ apptData>>
        \o [i \in 1..Len(appointments) |->
               [appointments[i] EXCEPT !.status = "superseded"]]

\* saveAppointment with push for unshift: the new record is put at the end
\* of the list.  C25 does not hold of it.
saveAppointmentAtEnd(apptData) ==
    appointments
        \o <<[_id |-> [prefix |-> "appt_", day |-> clock.day, ms |-> clock.ms],
              createdAt |-> NewDate] @@ apptData>>

\* saveAppointment: the list after { ...apptData, _id, createdAt } is put at
\* its front.  The _id is 'appt_' followed by Date.now(), here the clock's
\* day and millisecond.
saveAppointment(apptData) ==
    <<[_id |-> [prefix |-> "appt_", day |-> clock.day, ms |-> clock.ms],
       createdAt |-> NewDate] @@ apptData>> \o appointments

\* The most records GET /appointments lists.
SliceLimit == 50

\* Array.prototype.slice(start, end) for 0 <= start <= end.
slice(array, start, end) ==
    SubSeq(array, start + 1, IF end < Len(array) THEN end ELSE Len(array))

\* getAppointments that counts the records it lists instead of the records
\* stored.  C27 does not hold of it.
getAppointmentsCountingListed ==
    [success |-> TRUE, count |-> Len(slice(appointments, 0, SliceLimit)),
     appointments |-> slice(appointments, 0, SliceLimit)]

\* What getAppointments answers with (line 159).
getAppointments ==
    [success |-> TRUE, count |-> Len(appointments),
     appointments |-> slice(appointments, 0, SliceLimit)]

\* ----------------------------------------------------------- handlers

General == <<"G","e","n","e","r","a","l">>

\* The department of the response with "General" tried first.  C19 does not
\* hold of it.
DepartmentOfGeneralFirst(normalized, entities) ==
    IF ~Falsy(General) THEN General
    ELSE IF ~Falsy(normalized.department) THEN normalized.department
    ELSE entities.department

\* a || b || "General" of the department fields.
DepartmentOf(normalized, entities) ==
    IF ~Falsy(normalized.department) THEN normalized.department
    ELSE IF ~Falsy(entities.department) THEN entities.department
    ELSE General

\* (normalized.date && normalized.time) ? 0.95 : 0.5, in hundredths.
normConfidence(normalized) ==
    IF normalized.date # NULL /\ normalized.time # NULL THEN 95 ELSE 50

\* processTextParse once extractEntities has returned `entities` (lines
\* 98-154): the response it sends and the list it leaves.
processTextParseRest(text, entities) ==
    Bind(normalizeEntities(entities, env), LAMBDA normalized :
        IF needsClarification(entities)
        THEN [normalized |-> normalized, store |-> appointments,
              response |-> [status |-> "needs_clarification",
                            message |-> generateClarificationMessage(entities),
                            raw_text |-> text, confidence |-> 100,
                            entities_confidence |-> entities.confidence]]
        ELSE IF normalized.date = NULL \/ normalized.time = NULL
        THEN [normalized |-> normalized, store |-> appointments,
              response |-> [status |-> "needs_clarification",
                            message |-> <<AmbiguousMessage>>,
                            raw_text |-> text, confidence |-> 100,
                            entities_confidence |-> entities.confidence]]
        ELSE Bind(saveAppointment([rawText |-> text, extractedEntities |-> entities,
                                   normalizedData |-> normalized, status |-> "success",
                                   source |-> "text"]), LAMBDA saved :
                 [normalized |-> normalized, store |-> saved,
                  response |->
                      [status |-> "ok", raw_text |-> text, confidence |-> 100,
                       entities |-> [date_phrase |-> entities.date_phrase,
                                     time_phrase |-> entities.time_phrase,
                                     department |-> entities.department],
                       entities_confidence |-> entities.confidence,
                       normalized |-> [date |-> normalized.date, time |-> normalized.time,
                                       tz |-> normalized.timezone],
                       normalization_confidence |-> normConfidence(normalized),
                       appointment |-> [department |-> DepartmentOf(normalized, entities),
                                        date |-> normalized.date,
                                        time |-> normalized.time,
                                        tz |-> normalized.timezone],
                       _id |-> saved[1]._id]]))

\* The image handler with the two checks in the other order: null date or
\* time first, the gate second.  C4 does not hold of it.
processImageUploadParseFirst(rawText, confidence, path, entities) ==
    Bind(normalizeEntities(entities, env), LAMBDA normalized :
        IF normalized.date = NULL \/ normalized.time = NULL
        THEN [normalized |-> normalized, store |-> appointments,
              response |-> [status |-> "needs_clarification",
                            message |-> <<AmbiguousMessage>>,
                            raw_text |-> rawText, confidence |-> confidence,
                            entities_confidence |-> entities.confidence]]
        ELSE IF needsClarification(entities)
        THEN [normalized |-> normalized, store |-> appointments,
              response |-> [status |-> "needs_clarification",
                            message |-> generateClarificationMessage(entities),
                            raw_text |-> rawText, confidence |-> confidence,
                            entities_confidence |-> entities.confidence]]
        ELSE Bind(saveAppointment([rawText |-> rawText, extractedEntities |-> entities,
                                   normalizedData |-> normalized, status |-> "success",
                                   source |-> "image", imagePath |-> path]),
                  LAMBDA saved :
                 [normalized |-> normalized, store |-> saved,
                  response |-> [status |-> "ok", raw_text |-> rawText,
                                ocr_confidence |-> confidence,
                                _id |-> saved[1]._id]]))

\* processImageUpload once extractEntities has returned `entities` (lines
\* 31-88): the response it sends and the list it leaves.
processImageUploadRest(rawText, confidence, path, entities) ==
    Bind(normalizeEntities(entities, env), LAMBDA normalized :
        IF needsClarification(entities)
        THEN [normalized |-> normalized, store |-> appointments,
              response |-> [status |-> "needs_clarification",
                            message |-> generateClarificationMessage(entities),
                            raw_text |-> rawText, confidence |-> confidence,
                            entities_confidence |-> entities.confidence]]
        ELSE IF normalized.date = NULL \/ normalized.time = NULL
        THEN [normalized |-> normalized, store |-> appointments,
              response |-> [status |-> "needs_clarification",
                            message |-> <<AmbiguousMessage>>,
                            raw_text |-> rawText, confidence |-> confidence,
                            entities_confidence |-> entities.confidence]]
        ELSE Bind(saveAppointment([rawText |-> rawText, extractedEntities |-> entities,
                                   normalizedData |-> normalized, status |-> "success",
                                   source |-> "image", imagePath |-> path]),
                  LAMBDA saved :
                 [normalized |-> normalized, store |-> saved,
                  response |->
                      [status |-> "ok", raw_text |-> rawText,
                       ocr_confidence |-> confidence,
                       entities |-> [date_phrase |-> entities.date_phrase,
                                     time_phrase |-> entities.time_phrase,
                                     department |-> entities.department],
                       entities_confidence |-> entities.confidence,
                       normalized |-> [date |-> normalized.date, time |-> normalized.time,
                                       tz |-> normalized.timezone],
                       normalization_confidence |-> normConfidence(normalized),
                       appointment |-> [department |-> DepartmentOf(normalized, entities),
                                        date |-> normalized.date,
                                        time |-> normalized.time,
                                        tz |-> normalized.timezone],
                       _id |-> saved[1]._id]]))

\* Requests are numbered in their order of arrival.
CanArrive(r) ==
    /\ handlers[r].pc = "idle"
    /\ \A q \in ReqIds : q < r => handlers[q].pc # "idle"

\* A handler that has passed an error to next(err).
Failed(source, message) ==
    [pc |-> "done", source |-> source, outcome |-> "error", error |-> message]

\* A handler that has sent its response with res.json.
Responded(source, entities, routed) ==
    [pc |-> "done", source |-> source, outcome |-> "json", entities |-> entities,
     normalized |-> routed.normalized, response |-> routed.response]

\* Request bodies of POST /parse-text: no text, an empty text, a text.
TextInputs == {NULL, <<>>, <<"D","e","n","t","i","s","t"," ","3","p","m">>}

\* processTextParse up to its await of extractEntities (lines 93-97).
TextRequest(r) ==
    /\ CanArrive(r)
    /\ \E text \in TextInputs :
          handlers' = [handlers EXCEPT ![r] =
              IF Falsy(text) THEN Failed("text", "ZodError")
              ELSE [pc |-> "awaitEntities", source |-> "text", text |-> text]]
    /\ UNCHANGED <<appointments, clock, env, ticks, call>>

\* Uploads of POST /upload: no file, a file.
FileInputs == {NULL, <<"u","p","l","o","a","d","s","/","1">>}

\* processImageUpload up to its await of the OCR (lines 17-21).
ImageRequest(r) ==
    /\ CanArrive(r)
    /\ \E path \in FileInputs :
          handlers' = [handlers EXCEPT ![r] =
              IF Falsy(path) THEN Failed("image", "No image file")
              ELSE [pc |-> "awaitOCR", source |-> "image", imagePath |-> path]]
    /\ UNCHANGED <<appointments, clock, env, ticks, call>>

\* What the OCR can come to: it throws, or it returns a (trimmed, non-empty) text.
OcrOutcomes ==
    {OcrThrows, OcrText(<<"a">>), OcrText(<<"-","-","-">>),
     OcrText(<<"D","e","n","t","i","s","t"," ","3","p","m">>)}

\* processImageUpload from the OCR's return to its await of extractEntities
\* (lines 21-29).
OcrReturns(r) ==
    /\ handlers[r].pc = "awaitOCR"
    /\ \E ocr \in OcrOutcomes :
          handlers' = [handlers EXCEPT ![r] =
              IF ocr.kind = "throws" THEN Failed("image", "Mistral OCR failed")
              ELSE IF ~validateExtractedText(ocr.text)
              THEN Failed("image", "Could not extract meaningful text from image")
              ELSE [pc |-> "awaitEntities", source |-> "image", rawText |-> ocr.text,
                    confidence |-> OcrConfidence(ocr.text), imagePath |-> @.imagePath]]
    /\ UNCHANGED <<appointments, clock, env, ticks, call>>

\* JSON objects the model can answer with.
Json(d, t, dep, conf, clear) ==
    [date_phrase |-> d, time_phrase |-> t, department |-> dep, confidence |-> conf,
     confidenceIsNumber |-> TRUE, is_clear |-> clear]

ExtractorOutcomes ==
    {GeminiThrows, GeminiNoJson,
     GeminiJson(Json(Tomorrow, <<"3","p","m">>, Dentist, 92, "true")),
     GeminiJson(Json(Tomorrow, <<"n","o","o","n">>, Dentist, 92, "true")),
     GeminiJson(Json(Tomorrow, <<"2","5",":","0","0">>, Dentist, 92, "true")),
     GeminiJson(Json(<<"s","o","m","e","t","i","m","e">>, <<"3","p","m">>, Dentist, 90, "true")),
     GeminiJson(Json(<<"s","o","m","e","t","i","m","e">>, <<"3","p","m">>, Dentist, 50, "true")),
     GeminiJson(Json(Tomorrow, <<"3","p","m">>, Dentist, 92, "false")),
     GeminiJson(Json(Tomorrow, <<"3","p","m">>, NULL, 92, "true")),
     GeminiJson([Json(Today, <<"1","0",":","0","0">>, Dentist, 0, "undefined")
                    EXCEPT !.confidenceIsNumber = FALSE])}

\* processTextParse from extractEntities' return to the response (lines
\* 97-154).
TextEntitiesReturn(r) ==
    /\ handlers[r].pc = "awaitEntities"
    /\ handlers[r].source = "text"
    /\ \E outcome \in ExtractorOutcomes :
       \E entities \in {extractEntities(outcome)} :
       \E routed \in {processTextParseRest(handlers[r].text, entities)} :
          /\ handlers' = [handlers EXCEPT ![r] = Responded("text", entities, routed)]
          /\ appointments' = routed.store
    /\ UNCHANGED <<clock, env, ticks, call>>

\* processImageUpload from extractEntities' return to the response (lines
\* 29-88).
ImageEntitiesReturn(r) ==
    /\ handlers[r].pc = "awaitEntities"
    /\ handlers[r].source = "image"
    /\ \E outcome \in ExtractorOutcomes :
       \E entities \in {extractEntities(outcome)} :
       \E routed \in {processImageUploadRest(handlers[r].rawText, handlers[r].confidence,
                                              handlers[r].imagePath, entities)} :
          /\ handlers' = [handlers EXCEPT ![r] = Responded("image", entities, routed)]
          /\ appointments' = routed.store
    /\ UNCHANGED <<clock, env, ticks, call>>

\* GET /appointments (lines 158-160).
GetAppointments ==
    /\ call = NoCall
    /\ call' = [fn |-> "getAppointments", response |-> getAppointments]
    /\ UNCHANGED <<appointments, clock, env, handlers, ticks>>

MaxTicks == 1

\* A millisecond passes.
Tick ==
    /\ ticks < MaxTicks
    /\ ticks' = ticks + 1
    /\ clock' = IF clock.ms + 1 < MsPerDay THEN [clock EXCEPT !.ms = clock.ms + 1]
                ELSE [day |-> clock.day + 1, ms |-> 0]
    /\ UNCHANGED <<appointments, env, handlers, call>>

\* The server starts at 2026-01-19T18:30:00Z, which is midnight of
\* 2026-01-20 in Asia/Kolkata.
Init ==
    /\ appointments = <<>>
    /\ clock = [day |-> DaysFromCivil(2026, 1, 19),
                ms |-> 18 * MsPerHour + 30 * MsPerMinute]
    /\ env \in EnvInputs
    /\ handlers = [r \in ReqIds |-> Idle]
    /\ ticks = 0
    /\ call = NoCall

Next ==
    \/ \E r \in ReqIds : TextRequest(r)
    \/ \E r \in ReqIds : ImageRequest(r)
    \/ \E r \in ReqIds : OcrReturns(r)
    \/ \E r \in ReqIds : TextEntitiesReturn(r)
    \/ \E r \in ReqIds : ImageEntitiesReturn(r)
    \/ GetAppointments
    \/ Return
    \/ Tick

Spec == Init /\ [][Next]_vars

\* ------------------------------------- normalizeEntities called twice

\* One millisecond before midnight in Asia/Kolkata, and the instants of the
\* direct calls.
TwiceInstants ==
    CoreInstants
        \cup {[day |-> DaysFromCivil(2026, 1, 19),
               ms |-> 18 * MsPerHour + 30 * MsPerMinute - 1]}

TwiceTimePhrases == {NULL, <<"3","p","m">>, <<"n","o","o","n">>}

InitTwice ==
    /\ appointments = <<>>
    /\ clock \in TwiceInstants
    /\ env \in EnvInputs
    /\ handlers = [r \in ReqIds |-> Idle]
    /\ ticks = 0
    /\ call = NoCall

\* A caller normalizes entities and keeps them.
FirstCall ==
    /\ call = NoCall
    /\ \E e \in Entities(CoreDatePhrases, TwiceTimePhrases), tz \in TimezoneInputs :
          call' = [fn |-> "normalizeEntitiesTwice", calls |-> 1,
                   entities |-> e, timezone |-> tz,
                   now |-> clock, result |-> normalizeEntities(e, tz)]
    /\ UNCHANGED <<appointments, clock, env, handlers, ticks>>

\* The caller normalizes the same entities for the same timezone again.
SecondCall ==
    /\ call.fn = "normalizeEntitiesTwice"
    /\ call.calls = 1
    /\ call' = [fn |-> "normalizeEntitiesTwice", calls |-> 2,
                entities |-> call.entities, timezone |-> call.timezone,
                now |-> call.now, result |-> call.result,
                nowAgain |-> clock,
                resultAgain |-> normalizeEntities(call.entities, call.timezone)]
    /\ UNCHANGED <<appointments, clock, env, handlers, ticks>>

NextTwice == FirstCall \/ SecondCall \/ Tick \/ Return

SpecTwice == InitTwice /\ [][NextTwice]_vars

\* --------------------------------------- requests handled one by one

\* The most records the store is filled with.
MaxStored == 52

\* What the model call comes to for the requests handled one by one: the
\* entities of an appointment, or a failure.
ListOutcomes ==
    {GeminiJson(Json(Tomorrow, <<"3","p","m">>, Dentist, 92, "true")), GeminiThrows}

\* processTextParse from the request to the response (lines 93-154), no
\* other request being handled in between.
processTextParse ==
    /\ call = NoCall
    /\ Len(appointments) < MaxStored
    /\ \E text \in {t \in TextInputs : ~Falsy(t)}, outcome \in ListOutcomes :
       \E routed \in {processTextParseRest(text, extractEntities(outcome))} :
          appointments' = routed.store
    /\ UNCHANGED <<clock, env, handlers, ticks, call>>

NextList == processTextParse \/ GetAppointments \/ Return \/ Tick

SpecList == Init /\ [][NextList]_vars

\* ------------------------------------------------------------- claims

\* The timezone of a call is one date-fns-tz knows.
KnownZone(timezone) == TimezoneArg(timezone) \in KnownTimezones

\* The day number of the date the wall clock of `timezone` shows at the
\* instant of the clock.
LocalDay(timezone) ==
    clock.day
        + ((clock.ms + tzOffsetMinutes(TimezoneArg(timezone)) * MsPerMinute) \div MsPerDay)

\* The calendar date after the calendar date c.
NextCivil(c) ==
    IF c.day < DaysInMonth(c.year, c.month) THEN [c EXCEPT !.day = c.day + 1]
    ELSE IF c.month < 12 THEN [c EXCEPT !.month = c.month + 1, !.day = 1]
    ELSE [year |-> c.year + 1, month |-> 1, day |-> 1]

\* A calendar date written yyyy-MM-dd.
CivilText(c) ==
    padStart4(c.year) \o <<"-">> \o padStart2(c.month) \o <<"-">> \o padStart2(c.day)

\* The calendar date of the clock on the wall clock of `timezone`.
LocalCivil(timezone) == CivilFromDays(LocalDay(timezone))

\* The day of the week of a day number, 0 for Sunday, counted from Sunday
\* 2026-01-18.
Weekday(day) == (day - DaysFromCivil(2026, 1, 18)) % 7

\* A date phrase as the parser compares it.
Lowered(p) == trim(toLowerCase(p))

\* The call at hand is normalizeDatePhrase, in a known zone, of a phrase for
\* which `P` holds once lower-cased and trimmed.
DateCall(P(_)) ==
    /\ call.fn = "normalizeDatePhrase"
    /\ ~Falsy(call.datePhrase)
    /\ P(Lowered(call.datePhrase))
    /\ KnownZone(call.timezone)

\* C1: for every instant and zone, a date phrase that contains "day after
\* tomorrow" gives the local calendar date of now plus two days; that match
\* comes before the matches of "today" and "tomorrow".
C1_DayAfterTomorrowIsPlusTwo ==
    DateCall(LAMBDA p : includes(p, DayAfterTomorrow)) =>
        /\ call.result.ok
        /\ call.result.date = CivilText(NextCivil(NextCivil(LocalCivil(call.timezone))))

\* A time phrase, lower-cased and trimmed, matches the 24-hour pattern
\* H(H):MM or the 12-hour pattern H(H)(:MM)?(am|pm).
TimeRecognised(p) ==
    /\ ~Falsy(p)
    /\ time24Match(Lowered(p)).matched \/ time12Match(Lowered(p)).matched

\* C2: a time phrase that matches neither the 24-hour nor the 12-hour
\* pattern ("noon", "afternoon") makes normalizeTimePhrase return null, never
\* a time such as 00:00.
C2_UnmatchedTimeIsNull ==
    (/\ call.fn = "normalizeTimePhrase"
     /\ ~Falsy(call.timePhrase)
     /\ ~TimeRecognised(call.timePhrase)) => call.result = NullInfo

\* A date phrase has the shape of one of the patterns of normalizeDatePhrase:
\* one of the relative words, "next" with a weekday, or the text of one of
\* the four formats.
DateRecognised(p) ==
    /\ ~Falsy(p)
    /\ \/ includes(Lowered(p), Today)
       \/ includes(Lowered(p), Tomorrow)
       \/ includes(Lowered(p), NextWord) /\ \E i \in 1..7 : includes(Lowered(p), days[i])
       \/ \E i \in 1..Len(formats) :
             Bind(ParseTokens(formats[i], [ok |-> TRUE, year |-> 0, month |-> 0,
                                           day |-> 0, rest |-> p]), LAMBDA r :
                 r.ok /\ \A k \in 1..Len(r.rest) : IsSpace(r.rest[k]))

\* The handler of request r has sent a response built from extracted entities.
Answered(r) == handlers[r].pc = "done" /\ handlers[r].outcome = "json"

\* C3: a request whose entities pass the clarification gate but whose date
\* phrase or time phrase matches no recognised pattern ends in the
\* clarification "Ambiguous date/time or department", and no record is stored
\* for it.
C3_UnrecognisedPhraseIsAmbiguous ==
    /\ \A r \in ReqIds :
          (/\ Answered(r)
           /\ ~needsClarification(handlers[r].entities)
           /\ \/ ~DateRecognised(handlers[r].entities.date_phrase)
              \/ ~TimeRecognised(handlers[r].entities.time_phrase))
          => /\ handlers[r].response.status = "needs_clarification"
             /\ handlers[r].response.message = <<AmbiguousMessage>>
    /\ \A i \in 1..Len(appointments) :
          /\ DateRecognised(appointments[i].extractedEntities.date_phrase)
          /\ TimeRecognised(appointments[i].extractedEntities.time_phrase)

\* The routing decision the specification gives for a pair (entities, normalized).
Decision(entities, normalized) ==
    IF needsClarification(entities)
    THEN [kind |-> "Clarify", message |-> generateClarificationMessage(entities)]
    ELSE IF normalized.date = NULL \/ normalized.time = NULL
    THEN [kind |-> "Clarify", message |-> <<AmbiguousMessage>>]
    ELSE [kind |-> "Commit"]

\* The routing decision a response shows.
Outcome(response) ==
    IF response.status = "needs_clarification"
    THEN [kind |-> "Clarify", message |-> response.message]
    ELSE IF response.status = "ok" THEN [kind |-> "Commit"]
    ELSE [kind |-> "Other"]

\* C4: the text and the image handler both answer with the clarification of
\* generateClarificationMessage when needsClarification holds, otherwise with
\* "Ambiguous date/time or department" when normalized.date or
\* normalized.time is null, otherwise they commit; the gate comes first.
C4_RoutingDecision ==
    \A r \in ReqIds :
        Answered(r) =>
            Outcome(handlers[r].response)
                = Decision(handlers[r].entities, handlers[r].normalized)

\* An image request whose entities fail the gate and whose date does not
\* parse either is answered with the gate's message.
C4_GateFirstReached ==
    \E r \in ReqIds :
        /\ Answered(r)
        /\ handlers[r].source = "image"
        /\ needsClarification(handlers[r].entities)
        /\ ~Falsy(handlers[r].entities.date_phrase)
        /\ handlers[r].normalized.date = NULL
        /\ handlers[r].response.message = <<GenericPrompt>>

\* A field of the entities is present: neither null nor the empty string.
Present(field) == field # NULL /\ field # <<>>

\* C5: needsClarification returns false exactly when the confidence is at
\* least 0.6 (0.6 itself passes), date_phrase, time_phrase and department are
\* all present, and is_clear is not false; otherwise it returns true.
C5_GatePassesExactly ==
    call.fn = "needsClarification" =>
        /\ call.result \in BOOLEAN
        /\ (call.result = FALSE) <=>
               /\ call.entities.confidence >= 60
               /\ Present(call.entities.date_phrase)
               /\ Present(call.entities.time_phrase)
               /\ Present(call.entities.department)
               /\ call.entities.is_clear # FALSE

\* Entities with a confidence of exactly 0.6 pass the gate.
C5_ThresholdPassesReached ==
    /\ call.fn = "needsClarification"
    /\ call.entities.confidence = 60
    /\ call.result = FALSE

\* The handler of request r ends in this step.
Ends(r) == handlers[r].pc # "done" /\ handlers'[r].pc = "done"

\* The handler of request r has ended in Commit.
Committed(r) == Answered(r) /\ handlers[r].response.status = "ok"

\* C6: a record is added to the store only by a request that ends in Commit;
\* such a request adds exactly one record, of status "success" and of the
\* source of its endpoint, and a request that ends in a clarification or in
\* an error leaves the store as it was.
C6_StoredOnlyOnCommit ==
    [][/\ \A r \in ReqIds :
             Ends(r) =>
                 IF handlers'[r].outcome = "json" /\ handlers'[r].response.status = "ok"
                 THEN /\ Len(appointments') = Len(appointments) + 1
                      /\ \E i \in 1..Len(appointments') :
                            /\ appointments'[i].status = "success"
                            /\ appointments'[i].source = handlers'[r].source
                            /\ appointments'[i]._id = handlers'[r].response._id
                            /\ [j \in 1..Len(appointments) |->
                                   appointments'[IF j < i THEN j ELSE j + 1]] = appointments
                 ELSE appointments' = appointments
       /\ appointments' # appointments =>
             \E r \in ReqIds :
                 /\ Ends(r)
                 /\ handlers'[r].outcome = "json"
                 /\ handlers'[r].response.status = "ok"]_vars

\* An image request has committed and a text request has been asked to
\* clarify: one record, of source "image", is stored.
C6_CommitAndClarifyReached ==
    /\ Len(appointments) = 1
    /\ appointments[1].source = "image"
    /\ appointments[1].status = "success"
    /\ \E r, q \in ReqIds :
          /\ Committed(r) /\ handlers[r].source = "image"
          /\ handlers[r].response._id = appointments[1]._id
          /\ Answered(q) /\ handlers[q].source = "text"
          /\ handlers[q].response.status = "needs_clarification"

\* C7: in what normalizeEntities returns, datetime is non-null exactly when
\* date and time are both non-null.
C7_DatetimeIffDateAndTime ==
    call.fn = "normalizeEntities" =>
        (call.result.datetime # NULL
            <=> (call.result.date # NULL /\ call.result.time # NULL))

\* normalizeEntities has returned a date, a time and their datetime.
C7_DatetimeReached ==
    /\ call.fn = "normalizeEntities"
    /\ call.result.date = <<"2","0","2","6","-","0","1","-","2","5">>
    /\ call.result.time = <<"1","5",":","0","0">>
    /\ call.timezone = "Pacific/Honolulu"
    /\ call.result.datetime
          = <<"2","0","2","6","-","0","1","-","2","6","T","0","1",":","0","0",":",
              "0","0",".","0","0","0","Z">>

\* datetime is present only with date and time.
DatetimeOnlyWithBoth(normalized) ==
    normalized.datetime # NULL => (normalized.date # NULL /\ normalized.time # NULL)

\* C8: in what normalizeEntities returns to a handler and in the
\* normalizedData of every stored record, datetime is non-null only if date
\* and time are both non-null.
C8_DatetimeOnlyWithDateAndTime ==
    /\ \A r \in ReqIds : Answered(r) => DatetimeOnlyWithBoth(handlers[r].normalized)
    /\ \A i \in 1..Len(appointments) :
          DatetimeOnlyWithBoth(appointments[i].normalizedData)

\* A record with a datetime is stored, and a handler holds a normalized
\* value without one.
C8_StoredDatetimeReached ==
    /\ \E i \in 1..Len(appointments) : appointments[i].normalizedData.datetime # NULL
    /\ \E r \in ReqIds : Answered(r) /\ handlers[r].normalized.datetime = NULL

\* C9: for every instant and zone, "tomorrow" gives the local calendar date
\* of now plus one day, at local midnight, across the ends of months and
\* years too.
C9_TomorrowIsNextLocalDay ==
    DateCall(LAMBDA p : p = Tomorrow) =>
        /\ call.result.ok
        /\ call.result.date = CivilText(NextCivil(LocalCivil(call.timezone)))
        /\ call.result.datetime
              = [valid |-> TRUE, day |-> LocalDay(call.timezone) + 1, ms |-> 0]

\* "tomorrow" asked on the last local day of a year, when the date in UTC is
\* another one, gives the first day of the next year.
C9_YearEndReached ==
    /\ DateCall(LAMBDA p : p = Tomorrow)
    /\ LocalCivil(call.timezone) = [year |-> 2026, month |-> 12, day |-> 31]
    /\ LocalDay(call.timezone) = clock.day - 1
    /\ call.result.date = <<"2","0","2","7","-","0","1","-","0","1">>

\* C10: for every weekday w and every instant, "next <w>" gives a date that
\* falls on w, 1 to 7 days after today's local date, and never today: 7 days
\* after today when today is w.
C10_NextWeekdayWithinAWeek ==
    \A w \in 1..7 :
        DateCall(LAMBDA p : p = NextWord \o <<" ">> \o days[w]) =>
            /\ call.result.ok
            /\ call.result.datetime.valid
            /\ Weekday(call.result.datetime.day) = w - 1
            /\ call.result.datetime.day - LocalDay(call.timezone) \in 1..7
            /\ Weekday(LocalDay(call.timezone)) = w - 1
                  => call.result.datetime.day = LocalDay(call.timezone) + 7
            /\ call.result.date = CivilText(CivilFromDays(call.result.datetime.day))

\* "next friday" asked on a Friday gives the Friday a week later.
C10_SameWeekdayReached ==
    /\ DateCall(LAMBDA p : p = NextWord \o <<" ">> \o days[6])
    /\ Weekday(LocalDay(call.timezone)) = 5
    /\ call.result.datetime.day = LocalDay(call.timezone) + 7

\* A lower-cased, trimmed time phrase is one or two digits, white space or
\* none, and "am" or "pm", with no colon.
PlainTwelveHour(p) ==
    \E n \in 1..2 :
        /\ Len(p) >= n + 2
        /\ \A i \in 1..n : IsDigit(p[i])
        /\ \A i \in (n + 1)..(Len(p) - 2) : IsSpace(p[i])
        /\ SubSeq(p, Len(p) - 1, Len(p)) \in {<<"a","m">>, <<"p","m">>}

\* The number such a phrase starts with.
WrittenHour(p) ==
    IF IsDigit(p[2]) THEN 10 * DigitVal(p[1]) + DigitVal(p[2]) ELSE DigitVal(p[1])

\* The hour of the day of such a phrase: pm adds 12 unless the hour is 12,
\* and 12 am is hour 0.
HourOfDay(p) ==
    IF p[Len(p) - 1] = "p"
    THEN (IF WrittenHour(p) = 12 THEN 12 ELSE WrittenHour(p) + 12)
    ELSE (IF WrittenHour(p) = 12 THEN 0 ELSE WrittenHour(p))

\* The call at hand is normalizeTimePhrase of a non-empty phrase.
TimeCall == call.fn = "normalizeTimePhrase" /\ ~Falsy(call.timePhrase)

\* C11: a 12-hour phrase without a colon gives the hour of the day with
\* minute 0: pm adds 12 unless the hour is 12, and 12am is hour 0 ("3pm" is
\* 15:00, "12am" 00:00, "12pm" 12:00).
C11_TwelveHourMapping ==
    (/\ TimeCall
     /\ PlainTwelveHour(Lowered(call.timePhrase))
     /\ HourOfDay(Lowered(call.timePhrase)) < 24)
    => call.result = [ok |-> TRUE,
                      time |-> padStart2(HourOfDay(Lowered(call.timePhrase)))
                                  \o <<":","0","0">>,
                      hours |-> HourOfDay(Lowered(call.timePhrase)),
                      minutes |-> 0]

\* "12am" has been parsed to 00:00.
C11_MidnightReached ==
    /\ TimeCall
    /\ call.timePhrase = <<"1","2","a","m">>
    /\ call.result.ok
    /\ call.result.time = <<"0","0",":","0","0">>
    /\ call.result.hours = 0

\* C12: every non-null result of normalizeTimePhrase has its hour in 0..23
\* and its minute in 0..59, and a matched phrase whose final hour or minute
\* is outside these ranges ("25:00", "10:75", "13pm") gives null.
C12_TimeInRangeOrNull ==
    TimeCall =>
        /\ call.result # NullInfo =>
              /\ call.result.hours \in 0..23
              /\ call.result.minutes \in 0..59
              /\ call.result.time
                    = padStart2(call.result.hours) \o <<":">> \o padStart2(call.result.minutes)
        /\ (/\ TimeRecognised(call.timePhrase)
            /\ \/ TimeFields(Lowered(call.timePhrase)).hours \notin 0..23
               \/ TimeFields(Lowered(call.timePhrase)).minutes \notin 0..59)
           => call.result = NullInfo

\* "13pm", whose hour comes to 25, has been turned down.
C12_OutOfRangeReached ==
    /\ TimeCall
    /\ call.timePhrase = <<"1","3","p","m">>
    /\ TimeFields(Lowered(call.timePhrase)).hours = 25
    /\ call.result = NullInfo

\* The call at hand is normalizeDatePhrase.
AnyDateCall == call.fn = "normalizeDatePhrase"

\* C13: a date phrase that matches none of the lexical patterns and none of
\* the four absolute formats makes normalizeDatePhrase return null, in every
\* zone and at every instant; nothing is thrown.
C13_UnrecognisedDateIsNull ==
    (AnyDateCall /\ ~DateRecognised(call.datePhrase)) => call.result = NullInfo

\* "next week", which has "next" but no weekday, has been answered with null
\* in a known zone.
C13_NextWithoutWeekdayReached ==
    /\ AnyDateCall
    /\ call.datePhrase = <<"n","e","x","t"," ","w","e","e","k">>
    /\ KnownZone(call.timezone)
    /\ call.result = NullInfo

\* The four absolute formats in the order the specification lists them:
\* YYYY-MM-DD, DD/MM/YYYY, MM/DD/YYYY, "Mon DD, YYYY".
ClaimedOrder ==
    << <<"yyyy", "-", "MM", "-", "dd">>,
       <<"dd", "/", "MM", "/", "yyyy">>,
       <<"MM", "/", "dd", "/", "yyyy">>,
       <<"MMM", " ", "dd", ",", " ", "yyyy">> >>

\* The fields the k-th format reads in the phrase p.
Reading(p, k) ==
    ParseTokens(ClaimedOrder[k], [ok |-> TRUE, year |-> 0, month |-> 0, day |-> 0,
                                  rest |-> p])

\* The phrase p has the shape of the k-th format.
Reads(p, k) ==
    Bind(Reading(p, k), LAMBDA r : r.ok /\ \A i \in 1..Len(r.rest) : IsSpace(r.rest[i]))

\* The k-th format reads a day of the calendar in the phrase p.
ReadsCalendarDay(p, k) ==
    /\ Reads(p, k)
    /\ Bind(Reading(p, k), LAMBDA r :
           /\ r.year >= 1
           /\ r.month \in 1..12
           /\ r.day \in 1..DaysInMonth(r.year, r.month))

\* A phrase with none of the relative words in it.
Absolute(p) ==
    /\ ~Falsy(p)
    /\ ~includes(Lowered(p), Today)
    /\ ~includes(Lowered(p), Tomorrow)
    /\ ~includes(Lowered(p), NextWord)

\* C14: an absolute date phrase that names a day the calendar does not have
\* (29 February of a common year, a day or month out of range under every
\* format that reads the phrase) gives null, not a rolled-over date.
C14_NonexistentDayIsNull ==
    (/\ AnyDateCall
     /\ Absolute(call.datePhrase)
     /\ \E k \in 1..4 : Reads(call.datePhrase, k)
     /\ \A k \in 1..4 : ~ReadsCalendarDay(call.datePhrase, k))
    => call.result = NullInfo

\* "29/02/2025" has been answered with null in a known zone.
C14_CommonYearReached ==
    /\ AnyDateCall
    /\ call.datePhrase = <<"2","9","/","0","2","/","2","0","2","5">>
    /\ KnownZone(call.timezone)
    /\ call.result = NullInfo

\* The first format, in the order listed, that reads a day of the calendar
\* in the phrase p.
FirstReading(p) ==
    Reading(p, CHOOSE k \in 1..4 :
                   /\ ReadsCalendarDay(p, k)
                   /\ \A j \in 1..(k - 1) : ~ReadsCalendarDay(p, j))

\* C15: the formats are tried in the order YYYY-MM-DD, DD/MM/YYYY,
\* MM/DD/YYYY, "Mon DD, YYYY" and the first that reads a day of the calendar
\* wins: 03/04/2026 is read day-first, and 01/25/2026 month-first because its
\* day-first reading names no day.
C15_FirstValidFormatWins ==
    (/\ AnyDateCall
     /\ Absolute(call.datePhrase)
     /\ KnownZone(call.timezone)
     /\ \E k \in 1..4 : ReadsCalendarDay(call.datePhrase, k))
    => Bind(FirstReading(call.datePhrase), LAMBDA r :
           /\ call.result.ok
           /\ call.result.date
                 = CivilText([year |-> r.year, month |-> r.month, day |-> r.day])
           /\ call.result.datetime
                 = [valid |-> TRUE, day |-> DaysFromCivil(r.year, r.month, r.day),
                    ms |-> 0])

\* "03/04/2026", which both slash formats read, has been taken as 3 April.
C15_DayFirstReached ==
    /\ AnyDateCall
    /\ call.datePhrase = <<"0","3","/","0","4","/","2","0","2","6">>
    /\ ReadsCalendarDay(call.datePhrase, 2)
    /\ ReadsCalendarDay(call.datePhrase, 3)
    /\ call.result.ok
    /\ call.result.date = <<"2","0","2","6","-","0","4","-","0","3">>

\* The call at hand is generateClarificationMessage.
MessageCall == call.fn = "generateClarificationMessage"

\* The fields of the entities with their prompts, in the order date, time,
\* department.
PromptedFields(entities) ==
    << [missing |-> ~Present(entities.date_phrase), prompt |-> DatePrompt],
       [missing |-> ~Present(entities.time_phrase), prompt |-> TimePrompt],
       [missing |-> ~Present(entities.department), prompt |-> DepartmentPrompt] >>

\* The positions of a message at which `prompt` stands.
PositionsOf(message, prompt) == {i \in 1..Len(message) : message[i] = prompt}

\* C16: generateClarificationMessage has a prompt for exactly the fields
\* among date_phrase, time_phrase and department that are missing, in the
\* order date, time, department with ", " between them; the prompt of a
\* field that is present is not in the message.
C16_PromptsOfMissingFields ==
    MessageCall =>
        LET fields == PromptedFields(call.entities)
            message == call.result
        IN  /\ \A f \in 1..3 :
                  Cardinality(PositionsOf(message, fields[f].prompt))
                      = IF fields[f].missing THEN 1 ELSE 0
            /\ \A f, g \in 1..3 :
                  (f < g /\ fields[f].missing /\ fields[g].missing)
                  => \A i \in PositionsOf(message, fields[f].prompt),
                        j \in PositionsOf(message, fields[g].prompt) :
                         /\ i < j
                         /\ (~\E h \in (f + 1)..(g - 1) : fields[h].missing)
                               => (j = i + 2 /\ message[i + 1] = ", ")
            /\ (\E f \in 1..3 : fields[f].missing)
                  => /\ message[1] = "Please provide: "
                     /\ Len(message) = 2 * Cardinality({f \in 1..3 : fields[f].missing})

\* With the date and the department missing and the time present, the
\* message asks for the date and then the department.
C16_DateAndDepartmentReached ==
    /\ MessageCall
    /\ ~Present(call.entities.date_phrase)
    /\ Present(call.entities.time_phrase)
    /\ ~Present(call.entities.department)
    /\ call.result = <<"Please provide: ", DatePrompt, ", ", DepartmentPrompt>>

\* C17: when none of date_phrase, time_phrase and department is missing,
\* generateClarificationMessage returns exactly "Please provide the
\* appointment date, time, and department.".
C17_GenericFallback ==
    (/\ MessageCall
     /\ Present(call.entities.date_phrase)
     /\ Present(call.entities.time_phrase)
     /\ Present(call.entities.department))
    => call.result
          = <<"Please provide the appointment date, time, and department.">>

\* Entities with every field present that fail the gate on is_clear alone
\* have been answered with the fallback.
C17_UnclearOnlyReached ==
    /\ MessageCall
    /\ Present(call.entities.date_phrase)
    /\ Present(call.entities.time_phrase)
    /\ Present(call.entities.department)
    /\ call.entities.confidence >= 60
    /\ ~call.entities.is_clear
    /\ call.result = <<GenericPrompt>>

\* C18: the store only grows at its front: in every step, whatever the
\* request, each record stored before is still stored, in its place from the
\* end and with every field as it was, and the number of records does not go
\* down.
C18_AppendOnly ==
    [][/\ Len(appointments') >= Len(appointments)
       /\ \A i \in 1..Len(appointments) :
             appointments'[i + Len(appointments') - Len(appointments)] = appointments[i]]_vars

\* A text request has committed after an image request did: the image
\* request's record is the second of two, and the list has been read.
C18_OlderRecordKeptReached ==
    /\ Len(appointments) = 2
    /\ appointments[1].source = "text"
    /\ appointments[2].source = "image"
    /\ appointments[2].status = "success"
    /\ call.fn = "getAppointments"
    /\ call.response.count = 2
    /\ call.response.appointments = appointments

\* The first non-null value of a, b and "General".
FirstNonNull(a, b) == IF a # NULL THEN a ELSE IF b # NULL THEN b ELSE General

\* C19: the department a committed request reports is the first non-null
\* value of normalized.department, entities.department and "General", in
\* the text and in the image handler.
C19_DepartmentFallback ==
    \A r \in ReqIds :
        Committed(r) =>
            /\ handlers[r].response.appointment.department
                  = FirstNonNull(handlers[r].normalized.department,
                                 handlers[r].entities.department)
            /\ handlers[r].response.appointment.department
                  \in {handlers[r].normalized.department,
                       handlers[r].entities.department, General}

\* A text and an image request have committed and both report the department
\* of the entities.
C19_DepartmentReportedReached ==
    \E r, q \in ReqIds :
        /\ Committed(r) /\ handlers[r].source = "text"
        /\ Committed(q) /\ handlers[q].source = "image"
        /\ handlers[r].response.appointment.department = Dentist
        /\ handlers[q].response.appointment.department = Dentist
        /\ handlers[q].normalized.department = Dentist

\* A string of the shape yyyy-MM-dd.
IsDateText(s) ==
    /\ Len(s) = 10
    /\ \A i \in {1, 2, 3, 4, 6, 7, 9, 10} : IsDigit(s[i])
    /\ s[5] = "-" /\ s[8] = "-"

\* A string of the shape HH:MM.
IsTimeText(s) ==
    /\ Len(s) = 5
    /\ \A i \in {1, 2, 4, 5} : IsDigit(s[i])
    /\ s[3] = ":"

\* A string of the shape of Date.prototype.toISOString.
IsIsoText(s) ==
    /\ Len(s) = 24
    /\ IsDateText(SubSeq(s, 1, 10))
    /\ s[11] = "T"
    /\ IsTimeText(SubSeq(s, 12, 16))
    /\ s[24] = "Z"

\* C20: normalizeEntities is total: for all entities whose date_phrase,
\* time_phrase and department are strings or null, whatever the confidence,
\* is_clear and the timezone, it returns a value with all five fields, and a
\* parse or a composition that fails only makes its field null: the date is
\* null when the date phrase names no date or the zone is unknown, the time
\* is null when the time phrase matches no pattern.
C20_NormalizeIsTotal ==
    call.fn = "normalizeEntities" =>
        /\ DOMAIN call.result = {"date", "time", "datetime", "department", "timezone"}
        /\ call.result.date = NULL \/ IsDateText(call.result.date)
        /\ call.result.time = NULL \/ IsTimeText(call.result.time)
        /\ call.result.datetime = NULL \/ IsIsoText(call.result.datetime)
        /\ call.result.department = call.entities.department
        /\ call.result.timezone = TimezoneArg(call.timezone)
        /\ ~DateRecognised(call.entities.date_phrase) => call.result.date = NULL
        /\ ~KnownZone(call.timezone)
              => call.result.date = NULL /\ call.result.datetime = NULL
        /\ ~TimeRecognised(call.entities.time_phrase) => call.result.time = NULL
        /\ (call.result.date = NULL \/ call.result.time = NULL)
              => call.result.datetime = NULL

\* ------------------------------------------------------------- C21

\* Both calls of normalizeEntities have been made.
CalledTwice == call.fn = "normalizeEntitiesTwice" /\ call.calls = 2

C21_LaterCallDiffers ==
    /\ CalledTwice
    /\ call.nowAgain # call.now
    /\ call.resultAgain.date # call.result.date

\* ------------------------------------------------------------- C22

\* The number a string of digits writes.
NumberOf(s) == parseInt(s)

\* The UTC instant, written as toISOString writes it, at which the wall
\* clock of `timezone` shows the date `dateText` (yyyy-MM-dd) and the time
\* `timeText` (HH:MM).
InstantOfLocal(dateText, timeText, timezone) ==
    LET localDay == DaysFromCivil(NumberOf(SubSeq(dateText, 1, 4)),
                                  NumberOf(SubSeq(dateText, 6, 7)),
                                  NumberOf(SubSeq(dateText, 9, 10)))
        minutes == NumberOf(SubSeq(timeText, 1, 2)) * 60
                       + NumberOf(SubSeq(timeText, 4, 5))
                       - tzOffsetMinutes(timezone)
        utcDay == localDay + (minutes \div 1440)
        utcMinutes == minutes % 1440
    IN  CivilText(CivilFromDays(utcDay)) \o <<"T">>
            \o padStart2(utcMinutes \div 60) \o <<":">> \o padStart2(utcMinutes % 60)
            \o <<":", "0", "0", ".", "0", "0", "0", "Z">>

\* The entities of the example: "tomorrow", "3pm", "Dentist", 0.92, clear.
ExampleEntities(entities) ==
    /\ entities.date_phrase = Tomorrow
    /\ entities.time_phrase = <<"3","p","m">>
    /\ entities.department = Dentist
    /\ entities.confidence = 92
    /\ entities.is_clear = TRUE

\* C22: when both phrases parse, datetime is the UTC instant of the parsed
\* local date at the parsed local time in the target timezone; with the
\* entities "tomorrow", "3pm", "Dentist", confidence 0.92, is_clear true, the
\* timezone Asia/Kolkata and the clock at 2026-01-20T00:00:00+05:30 the
\* request commits with date 2026-01-21, time 15:00 and datetime
\* 2026-01-21T09:30:00.000Z.
C22_DatetimeIsLocalInstant ==
    \A r \in ReqIds :
        Answered(r) =>
            /\ (handlers[r].normalized.date # NULL /\ handlers[r].normalized.time # NULL)
                   => handlers[r].normalized.datetime
                          = InstantOfLocal(handlers[r].normalized.date,
                                           handlers[r].normalized.time,
                                           handlers[r].normalized.timezone)
            /\ (ExampleEntities(handlers[r].entities) /\ env = UNDEFINED)
                   => /\ Committed(r)
                      /\ handlers[r].normalized.timezone = "Asia/Kolkata"
                      /\ handlers[r].normalized.date
                            = <<"2","0","2","6","-","0","1","-","2","1">>
                      /\ handlers[r].normalized.time = <<"1","5",":","0","0">>
                      /\ handlers[r].normalized.datetime
                            = <<"2","0","2","6","-","0","1","-","2","1","T","0","9",":",
                                "3","0",":","0","0",".","0","0","0","Z">>

\* The request of the example has committed at the clock of the example and
\* its record holds the datetime 2026-01-21T09:30:00.000Z.
C22_ExampleReached ==
    /\ ticks = 0
    /\ env = UNDEFINED
    /\ \E r \in ReqIds :
          /\ Committed(r)
          /\ ExampleEntities(handlers[r].entities)
          /\ Len(appointments) = 1
          /\ appointments[1].normalizedData.datetime
                = <<"2","0","2","6","-","0","1","-","2","1","T","0","9",":",
                    "3","0",":","0","0",".","0","0","0","Z">>

\* ------------------------------------------------------------- C23

\* The entities are those extractEntities returns when the model call threw
\* or its response held no JSON.
ExtractionFailed(entities) == "error" \in DOMAIN entities

\* The message that asks for the date, the time and the department.
AllThreePrompts ==
    <<"Please provide: ", DatePrompt, ", ", TimePrompt, ", ", DepartmentPrompt>>

\* C23: a failure of the entity extractor (the model call throws, or its
\* response holds no JSON) never reaches a handler as an exception: the
\* handler receives entities of confidence 0 with date_phrase, time_phrase
\* and department null and is_clear false, answers with the clarification
\* that asks for date, time and department, and stores no record.
C23_ExtractorFailureClarifies ==
    /\ \A r \in ReqIds :
          handlers[r].pc = "done" =>
              IF handlers[r].outcome = "json"
              THEN ExtractionFailed(handlers[r].entities) =>
                       /\ handlers[r].entities.confidence = 0
                       /\ handlers[r].entities.date_phrase = NULL
                       /\ handlers[r].entities.time_phrase = NULL
                       /\ handlers[r].entities.department = NULL
                       /\ handlers[r].entities.is_clear = FALSE
                       /\ handlers[r].response.status = "needs_clarification"
                       /\ handlers[r].response.message = AllThreePrompts
                       /\ handlers[r].response.entities_confidence = 0
              ELSE handlers[r].error
                       \notin {"No JSON found in response", "model call failed"}
    /\ \A i \in 1..Len(appointments) :
          ~ExtractionFailed(appointments[i].extractedEntities)

\* The model call of a text request threw and the response of the model to
\* an image request held no JSON: both are asked for the three fields and
\* nothing is stored.
C23_BothFailuresReached ==
    /\ appointments = <<>>
    /\ \E r, q \in ReqIds :
          /\ Answered(r) /\ handlers[r].source = "text"
          /\ ExtractionFailed(handlers[r].entities)
          /\ handlers[r].entities.error = "model call failed"
          /\ handlers[r].response.message = AllThreePrompts
          /\ Answered(q) /\ handlers[q].source = "image"
          /\ ExtractionFailed(handlers[q].entities)
          /\ handlers[q].entities.error = "No JSON found in response"
          /\ handlers[q].response.message = AllThreePrompts

\* ------------------------------------------------------------- C24

\* The response of GET /appointments is at hand and no record has been
\* stored since it was sent.
Listed == call.fn = "getAppointments" /\ call.response.count = Len(appointments)

\* C24: GET /api/appointments retrieves all stored appointments: after any
\* sequence of committed requests the list it returns holds every record of
\* the store.
C24_ListHoldsEveryRecord ==
    Listed =>
        \A i \in 1..Len(appointments) :
            \E j \in 1..Len(call.response.appointments) :
                call.response.appointments[j] = appointments[i]

\* ------------------------------------------------------------- C25

\* The requests that have ended in Commit once this step is taken.
CommittedNext ==
    {r \in ReqIds : /\ handlers'[r].pc = "done"
                    /\ handlers'[r].outcome = "json"
                    /\ handlers'[r].response.status = "ok"}

\* C25: under any interleaving of concurrent requests no insert is lost or
\* duplicated: the store holds as many records as requests have reached
\* Commit, and each commit puts its record in front of the records already
\* stored, so the store is ordered newest first by the order in which the
\* inserts execute, not by the order in which the requests arrived.
C25_NoInsertLostOrDuplicated ==
    [][/\ Len(appointments') = Cardinality(CommittedNext)
       /\ \A r \in ReqIds :
             (Ends(r) /\ r \in CommittedNext) =>
                 /\ Tail(appointments') = appointments
                 /\ appointments'[1]._id = handlers'[r].response._id
                 /\ appointments'[1].source = handlers'[r].source
                 /\ appointments'[1].extractedEntities = handlers'[r].entities]_vars

\* Request 1, an upload, arrived before request 2, a text, and both have
\* committed; the insert of request 2 executed first, so the record of
\* request 1 is the newest.
C25_LaterArrivalInsertedFirstReached ==
    /\ Committed(1) /\ handlers[1].source = "image"
    /\ Committed(2) /\ handlers[2].source = "text"
    /\ Len(appointments) = 2
    /\ appointments[1].source = "image"
    /\ appointments[2].source = "text"

\* ------------------------------------------------------------- C26

\* C26: the _id of every stored record is unique in the store, also when two
\* requests commit within the same millisecond of the clock.
C26_IdsAreUnique ==
    \A i, j \in 1..Len(appointments) :
        i # j => appointments[i]._id # appointments[j]._id

\* ------------------------------------------------------------- C27

ColonsOfTimes(p) ==
    {c \in 2..(Len(p) - 2) :
        /\ p[c] = ":"
        /\ IsDigit(p[c - 1]) /\ IsDigit(p[c + 1]) /\ IsDigit(p[c + 2])}

\* The first of them.
FirstColon(p) == CHOOSE c \in ColonsOfTimes(p) : \A d \in ColonsOfTimes(p) : c <= d

\* The hour written before that colon, of two digits where there are two,
\* and the minute written after it.
ColonHour(p) ==
    LET c == FirstColon(p)
    IN  IF c >= 3 /\ IsDigit(p[c - 2]) THEN 10 * DigitVal(p[c - 2]) + DigitVal(p[c - 1])
        ELSE DigitVal(p[c - 1])

ColonMinute(p) ==
    LET c == FirstColon(p) IN 10 * DigitVal(p[c + 1]) + DigitVal(p[c + 2])

C29_CommitReportsItsDepartment ==
    \A r \in ReqIds :
        Committed(r) =>
            /\ Present(handlers[r].entities.department)
            /\ handlers[r].normalized.department = handlers[r].entities.department
            /\ handlers[r].response.appointment.department
                  = handlers[r].entities.department
            /\ handlers[r].normalized.date # NULL
            /\ handlers[r].normalized.time # NULL
            /\ handlers[r].response.normalization_confidence = 95

\* A request with the department "Dentist" has committed with
\* normalization_confidence 0.95, and a request whose entities hold no
\* department has been asked for it.
C29_DepartmentRequiredReached ==
    \E r, q \in ReqIds :
        /\ Committed(r)
        /\ handlers[r].response.appointment.department = Dentist
        /\ handlers[r].response.normalization_confidence = 95
        /\ Answered(q)
        /\ handlers[q].entities.department = NULL
        /\ handlers[q].entities.confidence = 92
        /\ handlers[q].response.status = "needs_clarification"
        /\ handlers[q].response.message = <<"Please provide: ", DepartmentPrompt>>

\* ------------------------------------------------------------- C30

\* The letters and digits.
Alphanumerics ==
    {Digits[i] : i \in DOMAIN Digits}
        \cup {UpperLetters[i] : i \in DOMAIN UpperLetters}
        \cup {LowerLetters[i] : i \in DOMAIN LowerLetters}

\* A text of at least 3 characters after trimming, one of them a letter or
\* a digit.
MeaningfulText(text) ==
    /\ Len(trim(text)) >= 3
    /\ \E i \in 1..Len(trim(text)) : trim(text)[i] \in Alphanumerics

\* The handler of request r has passed an error to the error handler.
Errored(r) == handlers[r].pc = "done" /\ handlers[r].outcome = "error"

\* The errors a handler passes on from the position it is at.
ErrorsAt(handler) ==
    IF handler.pc = "idle"
    THEN {"ZodError", "No image file"}
    ELSE IF handler.pc = "awaitOCR"
    THEN {"Mistral OCR failed", "Could not extract meaningful text from image"}
    ELSE {}

\* C30: on every error path of the two POST handlers (an empty or missing
\* text, no uploaded file, a failure of the OCR, an OCR text that fails
\* validateExtractedText because it is shorter than 3 characters after
\* trimming or holds no letter or digit) the error is passed to the error
\* handler, no later step of the pipeline is run (the entity extraction is
\* awaited only for a text that passed validation) and the store is left as
\* it was.
C30_ErrorPathsStopThePipeline ==
    [][\A r \in ReqIds :
          /\ Errored(r) => handlers'[r] = handlers[r]
          /\ (Ends(r) /\ handlers'[r].outcome = "error") =>
                /\ handlers'[r].error \in ErrorsAt(handlers[r])
                /\ handlers[r].pc = "idle" =>
                      handlers'[r].error = (IF handlers'[r].source = "text"
                                            THEN "ZodError" ELSE "No image file")
                /\ appointments' = appointments
          /\ handlers'[r].pc = "awaitEntities" =>
                IF handlers'[r].source = "image"
                THEN MeaningfulText(handlers'[r].rawText)
                ELSE handlers'[r].text # NULL /\ Len(handlers'[r].text) >= 1]_vars

\* A text request has committed; the OCR text of an upload then failed
\* validation: the error went to the error handler and the store still holds
\* the one record.
C30_ValidationFailureReached ==
    \E r, q \in ReqIds :
        /\ Committed(r)
        /\ Errored(q)
        /\ handlers[q].source = "image"
        /\ handlers[q].error = "Could not extract meaningful text from image"
        /\ Len(appointments) = 1
        /\ appointments[1]._id = handlers[r].response._id

====
